---------------------------- MODULE Spec2Model ----------------------------
(***************************************************************************)
(* coldiron: Netpbm images (src/src/lib.rs).                               *)
(*                                                                         *)
(* A byte stream is a sequence of numbers 0..255; text is the sequence of  *)
(* its ASCII codes.  A reader is modelled by the bytes it has not consumed *)
(* yet, a writer by the bytes written to it (an in-memory sink, for which  *)
(* every write is complete).  A Rust io::Result, or a process abort, is a  *)
(* record whose kind is "Ok", "Err" or "Panic".                            *)
(***************************************************************************)
EXTENDS Integers, Sequences, FiniteSets, TLC

VARIABLES src, dst, stream, ret, hdr

vars == <<src, dst, stream, ret, hdr>>

-----------------------------------------------------------------------------
(* Bounds of the model *)

\* widest and tallest image the pixel-store / codec specification creates
MaxWidth == 9
MaxHeight == 2
\* the caller stores pixels until this many pixels of the image are nonzero
MaxInk == 1
\* largest dimension of the images of the kernel specification
MaxKDim == 3
\* most nonzero pixels of source and destination together (kernel)
MaxKInk == 2
\* most comment / blank lines inserted into one header
MaxFill == 2
\* raw bodies of the streams opened for decoding hold at most this many bytes
MaxBody == 3
\* text bodies of the streams opened for decoding hold at most this many tokens
MaxSamples == 4
\* largest width and height in the headers of the streams opened for decoding
MaxInDim == 2

\* the sample values stored by set_pixel
PixelValues == {0, 1, 255}

-----------------------------------------------------------------------------
(* Characters *)

LF == 10
SPACE == 32
HASH == 35
PLUS == 43
DIGIT0 == 48
LETTERP == 80

\* char::is_whitespace on the ASCII range (str::trim, split_whitespace)
is_whitespace(c) == c = 32 \/ (c >= 9 /\ c <= 13)

is_digit(c) == c >= DIGIT0 /\ c <= DIGIT0 + 9

\* the magic number "P<n>"
Magic(n) == <<LETTERP, DIGIT0 + n>>

Some(x) == <<x>>
None == <<>>

Formats == {"Bitmap", "Graymap", "Pixmap"}
Encodings == {"Ascii", "Binary"}

\* Format::from_magic_number
Format_from_magic_number(magic_number) ==
    IF magic_number \in {Magic(1), Magic(4)} THEN Some("Bitmap")
    ELSE IF magic_number \in {Magic(2), Magic(5)} THEN Some("Graymap")
    ELSE IF magic_number \in {Magic(3), Magic(6)} THEN Some("Pixmap")
    ELSE None

\* Encoding::from_magic_number
Encoding_from_magic_number(magic_number) ==
    IF magic_number \in {Magic(1), Magic(3), Magic(5)} THEN Some("Ascii")
    ELSE IF magic_number \in {Magic(2), Magic(4), Magic(6)} THEN Some("Binary")
    ELSE None

-----------------------------------------------------------------------------
(* Pixel store *)

\* Color8::new
Color8_new(red, green, blue) == [red |-> red, green |-> green, blue |-> blue]

\* vec![v; count]
Repeat(v, count) == [i \in 1..count |-> v]

\* the ImageData variant and its vector
ImageData(tag, buf) == [tag |-> tag, buf |-> buf]

\* the struct Image
Image(format, width, height, data) ==
    [format |-> format, width |-> width, height |-> height, data |-> data]

\* the value of an image slot that holds no image
NoImage == Image("None", 0, 0, ImageData("None", <<>>))

\* Image::new
Image_new(image_type, width, height) ==
    LET count == width * height
        data == CASE image_type = "Bitmap" -> ImageData("Bitmap", Repeat(0, count))
                  [] image_type = "Graymap" -> ImageData("Graymap8", Repeat(0, count))
                  [] image_type = "Pixmap" ->
                        ImageData("Pixmap", Repeat(Color8_new(0, 0, 0), count))
    IN  Image(image_type, width, height, data)

\* an operation's outcome: returned normally, returned an io::Error, or aborted
Ok(v) == [kind |-> "Ok", err |-> "", val |-> v]
Err(e) == [kind |-> "Err", err |-> e, val |-> <<>>]
Panic(msg) == [kind |-> "Panic", err |-> msg, val |-> <<>>]

\* Image::set_pixel: the image after the store, or the abort of the slice index
set_pixel(self, x, y, value) ==
    LET index == y * self.width + x
        stored == IF self.data.tag = "Pixmap"
                  THEN Color8_new(value, value, value) ELSE value
    IN  IF index >= Len(self.data.buf)
        THEN Panic("index out of bounds")
        ELSE Ok([self EXCEPT !.data.buf[index + 1] = stored])

\* Image::get_pixel
get_pixel(self, x, y) ==
    LET index == y * self.width + x
    IN  IF self.data.tag = "Pixmap" THEN Panic("not implemented")
        ELSE IF index >= Len(self.data.buf) THEN Panic("index out of bounds")
        ELSE Ok(self.data.buf[index + 1])

-----------------------------------------------------------------------------
(* Encoder *)

RECURSIVE Decimal(_)
\* the Display of an unsigned integer ("{}")
Decimal(n) ==
    IF n < 10 THEN <<DIGIT0 + n>>
    ELSE Append(Decimal(n \div 10), DIGIT0 + (n % 10))

\* write_header
write_header(magic_number, width, height, max_value) ==
    magic_number \o <<LF>>
    \o Decimal(width) \o <<SPACE>> \o Decimal(height) \o <<LF>>
    \o (IF max_value # None THEN Decimal(max_value[1]) \o <<LF>> ELSE <<>>)

RECURSIVE pbm_binary_row_nopad(_, _, _, _, _, _)
\* pbm_binary_row without the shift of the row's last byte: the bits of a
\* partial byte stay in its low bits
pbm_binary_row_nopad(width, data, y, x, acc, out) ==
    IF x >= width
    THEN IF acc.bit_count > 0 THEN Append(out, acc.byte) ELSE out
    ELSE LET index == y * width + x
             bit == IF data[index + 1] # 0 THEN 0 ELSE 1
             byte == ((acc.byte * 2) % 256) + bit
             bit_count == acc.bit_count + 1
         IN  IF bit_count = 8
             THEN pbm_binary_row_nopad(width, data, y, x + 1,
                                       [byte |-> 0, bit_count |-> 0], Append(out, byte))
             ELSE pbm_binary_row_nopad(width, data, y, x + 1,
                                       [byte |-> byte, bit_count |-> bit_count], out)

RECURSIVE pbm_binary_row(_, _, _, _, _, _)
\* write_pbm_binary, the loop over x of one row: byte and bit_count are the
\* row's locals, out the bytes the row has written
pbm_binary_row(width, data, y, x, acc, out) ==
    IF x >= width
    THEN IF acc.bit_count > 0
         THEN Append(out, (acc.byte * 2 ^ (8 - acc.bit_count)) % 256)
         ELSE out
    ELSE LET index == y * width + x
             bit == IF data[index + 1] # 0 THEN 0 ELSE 1
             byte == ((acc.byte * 2) % 256) + bit
             bit_count == acc.bit_count + 1
         IN  IF bit_count = 8
             THEN pbm_binary_row(width, data, y, x + 1,
                                 [byte |-> 0, bit_count |-> 0], Append(out, byte))
             ELSE pbm_binary_row(width, data, y, x + 1,
                                 [byte |-> byte, bit_count |-> bit_count], out)

RECURSIVE pbm_binary_rows(_, _, _, _)
\* write_pbm_binary, the loop over y
pbm_binary_rows(width, height, data, y) ==
    IF y >= height THEN <<>>
    ELSE pbm_binary_row(width, data, y, 0, [byte |-> 0, bit_count |-> 0], <<>>)
         \o pbm_binary_rows(width, height, data, y + 1)

\* write_pbm_binary
write_pbm_binary(width, height, data) ==
    write_header(Magic(4), width, height, None)
    \o pbm_binary_rows(width, height, data, 0)

RECURSIVE Concat(_)
\* the bytes of a sequence of writes, in order
Concat(parts) ==
    IF parts = <<>> THEN <<>> ELSE Head(parts) \o Concat(Tail(parts))

\* write_pbm_ascii
write_pbm_ascii(width, height, data) ==
    write_header(Magic(1), width, height, None)
    \o Concat([i \in 1..Len(data) |->
                 <<DIGIT0 + (IF data[i] = 0 THEN 1 ELSE 0), SPACE>>])

\* write_pgm_binary
write_pgm_binary(width, height, data) ==
    write_header(Magic(5), width, height, Some(255)) \o data

\* write_pgm_ascii
write_pgm_ascii(width, height, data) ==
    write_header(Magic(2), width, height, Some(255))
    \o Concat([i \in 1..Len(data) |-> Decimal(data[i]) \o <<SPACE>>])

\* write_ppm_binary
write_ppm_binary(width, height, data) ==
    write_header(Magic(6), width, height, Some(255))
    \o Concat([i \in 1..Len(data) |-> <<data[i].red, data[i].green, data[i].blue>>])

\* write_ppm_ascii
write_ppm_ascii(width, height, data) ==
    write_header(Magic(3), width, height, Some(255))
    \o Concat([i \in 1..Len(data) |->
                 Decimal(data[i].red) \o <<SPACE>> \o Decimal(data[i].green)
                 \o <<SPACE>> \o Decimal(data[i].blue) \o <<SPACE>>])

\* Image::write_to: the bytes written
write_to(self, encoding) ==
    LET tag == self.data.tag
        data == self.data.buf
    IN  CASE tag = "Pixmap" /\ encoding = "Binary" ->
                write_ppm_binary(self.width, self.height, data)
          [] tag = "Pixmap" /\ encoding = "Ascii" ->
                write_ppm_ascii(self.width, self.height, data)
          [] tag = "Graymap8" /\ encoding = "Binary" ->
                write_pgm_binary(self.width, self.height, data)
          [] tag = "Graymap8" /\ encoding = "Ascii" ->
                write_pgm_ascii(self.width, self.height, data)
          [] tag = "Bitmap" /\ encoding = "Binary" ->
                write_pbm_binary(self.width, self.height, data)
          [] tag = "Bitmap" /\ encoding = "Ascii" ->
                write_pbm_ascii(self.width, self.height, data)

-----------------------------------------------------------------------------
(* Reading lines and tokens *)

\* the result of a read that yields text: kind, error kind, the text, and the
\* bytes the reader has not consumed
Line(kind, err, line, rest) == [kind |-> kind, err |-> err, line |-> line, rest |-> rest]

\* the length of the first line of s, its line feed included (all of s when it
\* holds no line feed)
LineEnd(s) ==
    LET feeds == {i \in 1..Len(s) : s[i] = LF}
    IN  IF feeds = {} THEN Len(s)
        ELSE CHOOSE i \in feeds : \A j \in feeds : i <= j

\* str::from_utf8 on the bytes of the model's streams: ASCII, 0x80 and 0xFF.
\* None of them is the lead byte of a multi-byte sequence, so a line is valid
\* UTF-8 exactly when every byte of it is ASCII.
is_utf8(line) == \A i \in 1..Len(line) : line[i] < 128

\* BufRead::read_line into a cleared String: the bytes up to and including the
\* next line feed; an io::Error of kind InvalidData when they are not UTF-8
read_line(s) ==
    LET n == LineEnd(s)
        line == SubSeq(s, 1, n)
        rest == SubSeq(s, n + 1, Len(s))
    IN  IF is_utf8(line) THEN Line("Ok", "", line, rest)
        ELSE Line("Err", "InvalidData", <<>>, rest)

RECURSIVE trim_start(_, _)
\* the index of the first character of line at or after i that is no
\* whitespace (Len(line) + 1 when none)
trim_start(line, i) ==
    IF i > Len(line) THEN i
    ELSE IF is_whitespace(line[i]) THEN trim_start(line, i + 1)
    ELSE i

RECURSIVE trim_end(_, _)
\* the index of the last character of line at or before i that is no
\* whitespace (0 when none)
trim_end(line, i) ==
    IF i < 1 THEN 0
    ELSE IF is_whitespace(line[i]) THEN trim_end(line, i - 1)
    ELSE i

\* str::trim
trim(line) == SubSeq(line, trim_start(line, 1), trim_end(line, Len(line)))

RECURSIVE next_line_keeps_comments(_)
\* next_line without the test for '#': only blank lines are skipped
next_line_keeps_comments(s) ==
    LET r == read_line(s)
    IN  IF r.kind = "Err" THEN r
        ELSE IF Len(r.line) = 0 THEN Line("Err", "UnexpectedEof", <<>>, s)
        ELSE LET trimmed == trim(r.line)
             IN  IF trimmed # <<>>
                 THEN Line("Ok", "", trimmed, r.rest)
                 ELSE next_line_keeps_comments(r.rest)

RECURSIVE next_line(_)
\* the closure next_line of read_header and of the three ASCII body readers:
\* the next line that is neither blank nor a comment, trimmed
next_line(s) ==
    LET r == read_line(s)
    IN  IF r.kind = "Err" THEN r
        ELSE IF Len(r.line) = 0 THEN Line("Err", "UnexpectedEof", <<>>, s)
        ELSE LET trimmed == trim(r.line)
             IN  IF trimmed # <<>> /\ trimmed[1] # HASH
                 THEN Line("Ok", "", trimmed, r.rest)
                 ELSE next_line(r.rest)

\* the indices of text at which a token starts (no whitespace, and the first
\* character or after a whitespace), in order
token_starts(text) ==
    SelectSeq([i \in 1..Len(text) |-> i],
              LAMBDA i : ~is_whitespace(text[i])
                         /\ (i = 1 \/ is_whitespace(text[IF i = 1 THEN 1 ELSE i - 1])))

\* the indices of text at which a token ends, in order
token_ends(text) ==
    SelectSeq([i \in 1..Len(text) |-> i],
              LAMBDA i : ~is_whitespace(text[i])
                         /\ (i = Len(text)
                             \/ is_whitespace(text[IF i = Len(text) THEN i ELSE i + 1])))

\* the tokens of text that start at starts and end at ends
tokens_between(text, starts, ends) ==
    [k \in 1..Len(starts) |-> SubSeq(text, starts[k], ends[k])]

\* str::split_whitespace, collected
split_whitespace(text) == tokens_between(text, token_starts(text), token_ends(text))

\* u16::MAX
U16_MAX == 65535

RECURSIVE DigitsValue(_)
\* the number a string of decimal digits denotes
DigitsValue(digits) ==
    IF digits = <<>> THEN 0
    ELSE 10 * DigitsValue(SubSeq(digits, 1, Len(digits) - 1))
         + (digits[Len(digits)] - DIGIT0)

\* the digits of a token of str::parse to an unsigned integer: an optional '+',
\* then one or more decimal digits (a sign alone, or '-', is an error).  The
\* tokens of the model have at most 9 digits, so the value never reaches
\* usize::MAX.
parse_digits(token) ==
    LET digits == IF Len(token) > 1 /\ token[1] = PLUS THEN Tail(token) ELSE token
    IN  IF digits # <<>> /\ Len(digits) <= 9
           /\ (\A i \in 1..Len(digits) : is_digit(digits[i]))
        THEN Some(DigitsValue(digits))
        ELSE None

\* str::parse::<usize>
parse_usize(token) ==
    LET n == parse_digits(token)
    IN  IF n # None THEN Ok(n[1]) ELSE Err("ParseIntError")

\* str::parse::<u16>
parse_u16(token) ==
    LET n == parse_digits(token)
    IN  IF n # None /\ n[1] <= U16_MAX THEN Ok(n[1]) ELSE Err("ParseIntError")

-----------------------------------------------------------------------------
(* Header grammar *)

\* the result of read_header
Header(kind, err, magic, width, height, maxval, rest) ==
    [kind |-> kind, err |-> err, magic |-> magic, width |-> width,
     height |-> height, maxval |-> maxval, rest |-> rest]

HeaderErr(err) == Header("Err", err, <<>>, 0, 0, None, <<>>)

RECURSIVE header_tokens(_, _)
\* read_header, the loop over the tokens of one line: the dimensions collected,
\* or the failure on a token that is no number
header_tokens(tokens, dimensions) ==
    IF tokens = <<>> THEN Ok(dimensions)
    ELSE LET n == parse_usize(Head(tokens))
         IN  IF n.kind = "Ok"
             THEN IF Len(dimensions) + 1 = 2 THEN Ok(Append(dimensions, n.val))
                  ELSE header_tokens(Tail(tokens), Append(dimensions, n.val))
             ELSE Err("InvalidData")

RECURSIVE header_dimensions(_, _)
\* read_header, the loop that reads lines until two dimensions are collected
header_dimensions(s, dimensions) ==
    IF Len(dimensions) >= 2 THEN [kind |-> "Ok", err |-> "", dims |-> dimensions, rest |-> s]
    ELSE LET text == next_line(s)
         IN  IF text.kind # "Ok"
             THEN [kind |-> "Err", err |-> text.err, dims |-> <<>>, rest |-> <<>>]
             ELSE LET got == header_tokens(split_whitespace(text.line), dimensions)
                  IN  IF got.kind # "Ok"
                      THEN [kind |-> "Err", err |-> got.err, dims |-> <<>>, rest |-> <<>>]
                      ELSE header_dimensions(text.rest, got.val)

\* read_header, from the maxval line on (the variants that carry a maxval)
header_maxval(magic, dims, l) ==
    IF l.kind # "Ok" THEN HeaderErr(l.err)
    ELSE IF parse_u16(l.line).kind # "Ok" THEN HeaderErr("InvalidData")
    ELSE Header("Ok", "", magic, dims[1], dims[2], Some(parse_u16(l.line).val), l.rest)

\* read_header, after the loop over the dimensions
header_after_dimensions(magic, d) ==
    IF d.kind # "Ok" THEN HeaderErr(d.err)
    ELSE IF magic \in {Magic(2), Magic(3), Magic(5), Magic(6)}
    THEN header_maxval(magic, d.dims, next_line(d.rest))
    ELSE Header("Ok", "", magic, d.dims[1], d.dims[2], None, d.rest)

\* read_header, after the line of the magic number
header_after_magic(magic) ==
    IF magic.kind # "Ok" THEN HeaderErr(magic.err)
    ELSE header_after_dimensions(magic.line, header_dimensions(magic.rest, <<>>))

\* read_header
read_header(s) == header_after_magic(next_line(s))

-----------------------------------------------------------------------------
(* Decoder *)

\* Read::read_exact of n bytes
read_exact(s, n) ==
    IF Len(s) < n THEN Err("UnexpectedEof") ELSE Ok(SubSeq(s, 1, n))

\* usize::div_ceil
div_ceil(a, b) == (a + b - 1) \div b

\* read_pbm_ascii, the loop over the characters of one line
pbm_ascii_chars(line) ==
    LET tokens == SelectSeq(line, LAMBDA c : ~is_whitespace(c))
    IN  [i \in 1..Len(tokens) |-> IF tokens[i] = DIGIT0 THEN 0 ELSE 1]

RECURSIVE pbm_ascii_lines(_, _, _)
\* read_pbm_ascii, the loop that reads lines until byte_count values are held
pbm_ascii_lines(s, bytes, byte_count) ==
    IF Len(bytes) >= byte_count THEN Ok(ImageData("Bitmap", bytes))
    ELSE LET line == next_line(s)
         IN  IF line.kind # "Ok" THEN Err(line.err)
             ELSE pbm_ascii_lines(line.rest, bytes \o pbm_ascii_chars(line.line),
                                  byte_count)

\* read_pbm_ascii
read_pbm_ascii(s, width, height) == pbm_ascii_lines(s, <<>>, height * width)

\* read_pbm_binary, the loop over the bits of one byte: bit i is b & (1 << i)
unpack_bits(b) == [k \in 1..8 |-> IF (b \div (2 ^ (k - 1))) % 2 = 0 THEN 0 ELSE 1]

\* read_pbm_binary
read_pbm_binary(s, width, height) ==
    LET byte_count == height * div_ceil(width, 8)
        buf == read_exact(s, byte_count)
    IN  IF buf.kind # "Ok" THEN buf
        ELSE Ok(ImageData("Bitmap",
                          Repeat(0, height * width)
                          \o Concat([k \in 1..Len(buf.val) |-> unpack_bits(buf.val[k])])))

\* (value as f32 / max_value as f32) as u8, and value as u8 without a maxval.
\* Both operands are below 2^16, so the f32 quotient has the integer part of the
\* exact quotient; the cast truncates and saturates at 255; x/0 is +inf (255)
\* and 0/0 is NaN (0).
sample_u8(value, max_value) ==
    IF max_value = None THEN value % 256
    ELSE IF max_value[1] = 0 THEN (IF value = 0 THEN 0 ELSE 255)
    ELSE IF value \div max_value[1] > 255 THEN 255
    ELSE value \div max_value[1]

RECURSIVE pgm_ascii_tokens(_, _, _)
\* read_pgm_ascii, the loop over the tokens of one line
pgm_ascii_tokens(tokens, bytes, max_value) ==
    IF tokens = <<>> THEN Ok(bytes)
    ELSE LET value == parse_u16(Head(tokens))
         IN  IF value.kind # "Ok" THEN Panic("Invalid color value")
             ELSE pgm_ascii_tokens(Tail(tokens),
                                   Append(bytes, sample_u8(value.val, max_value)),
                                   max_value)

RECURSIVE pgm_ascii_lines(_, _, _, _)
\* read_pgm_ascii, the loop that reads lines until byte_count values are held
pgm_ascii_lines(s, bytes, byte_count, max_value) ==
    IF Len(bytes) >= byte_count THEN Ok(ImageData("Graymap8", bytes))
    ELSE LET line == next_line(s)
         IN  IF line.kind # "Ok" THEN Err(line.err)
             ELSE LET got == pgm_ascii_tokens(split_whitespace(line.line), bytes,
                                              max_value)
                  IN  IF got.kind # "Ok" THEN got
                      ELSE pgm_ascii_lines(line.rest, got.val, byte_count, max_value)

\* read_pgm_ascii
read_pgm_ascii(s, width, height, max_value) ==
    pgm_ascii_lines(s, <<>>, height * width, max_value)

\* read_pgm_binary
read_pgm_binary(s, width, height, max_value) ==
    LET size == IF max_value # None /\ max_value[1] >= 256 THEN 2 ELSE 1
    IN  IF size # 1 THEN Panic("not implemented")
        ELSE LET byte_count == height * width * size
                 buf == read_exact(s, byte_count)
             IN  IF buf.kind # "Ok" THEN buf
                 ELSE Ok(ImageData("Bitmap", buf.val))

RECURSIVE ppm_ascii_tokens(_, _, _)
\* read_ppm_ascii, the loop over the tokens of one line; st holds the locals
\* rgb_index, rgb and pixels, which live across lines
ppm_ascii_tokens(tokens, st, max_value) ==
    IF tokens = <<>> THEN Ok(st)
    ELSE LET value == parse_u16(Head(tokens))
         IN  IF value.kind # "Ok" THEN Panic("Invalid color value")
             ELSE IF st.rgb_index >= 3 THEN Panic("index out of bounds")
             ELSE LET b == sample_u8(value.val, max_value)
                      rgb == [st.rgb EXCEPT ![st.rgb_index + 1] = b]
                      rgb_index == st.rgb_index + 1
                  IN  ppm_ascii_tokens(
                          Tail(tokens),
                          [rgb_index |-> rgb_index, rgb |-> rgb,
                           pixels |-> IF rgb_index = 3
                                      THEN Append(st.pixels,
                                                  Color8_new(rgb[1], rgb[2], rgb[3]))
                                      ELSE st.pixels],
                          max_value)

RECURSIVE ppm_ascii_lines(_, _, _, _)
\* read_ppm_ascii, the loop that reads lines until pixel_count pixels are held
ppm_ascii_lines(s, st, pixel_count, max_value) ==
    IF Len(st.pixels) >= pixel_count THEN Ok(ImageData("Pixmap", st.pixels))
    ELSE LET line == next_line(s)
         IN  IF line.kind # "Ok" THEN Err(line.err)
             ELSE LET got == ppm_ascii_tokens(split_whitespace(line.line), st,
                                              max_value)
                  IN  IF got.kind # "Ok" THEN got
                      ELSE ppm_ascii_lines(line.rest, got.val, pixel_count, max_value)

\* read_ppm_ascii
read_ppm_ascii(s, width, height, max_value) ==
    ppm_ascii_lines(s, [rgb_index |-> 0, rgb |-> <<0, 0, 0>>, pixels |-> <<>>],
                    height * width, max_value)

\* read_ppm_binary
read_ppm_binary(s, width, height, max_value) ==
    LET size == IF max_value # None /\ max_value[1] >= 256 THEN 2 ELSE 1
    IN  IF size # 1 THEN Panic("not implemented")
        ELSE LET byte_count == height * width * size
                 buf == read_exact(s, byte_count)
             IN  IF buf.kind # "Ok" THEN buf
                 ELSE Ok(ImageData("Bitmap", buf.val))

\* Image::read_from, the name of the body reader the match selects
body_reader(format, encoding) ==
    CASE format = "Bitmap" /\ encoding = "Ascii" -> "read_pbm_ascii"
      [] format = "Bitmap" /\ encoding = "Binary" -> "read_pbm_binary"
      [] format = "Graymap" /\ encoding = "Ascii" -> "read_pgm_ascii"
      [] format = "Graymap" /\ encoding = "Binary" -> "read_pgm_binary"
      [] format = "Pixmap" /\ encoding = "Ascii" -> "read_ppm_ascii"
      [] format = "Pixmap" /\ encoding = "Binary" -> "read_ppm_binary"

\* Image::read_from, the body reader named by reader applied to the body
read_body(reader, s, width, height, max_value) ==
    CASE reader = "read_pbm_ascii" -> read_pbm_ascii(s, width, height)
      [] reader = "read_pbm_binary" -> read_pbm_binary(s, width, height)
      [] reader = "read_pgm_ascii" -> read_pgm_ascii(s, width, height, max_value)
      [] reader = "read_pgm_binary" -> read_pgm_binary(s, width, height, max_value)
      [] reader = "read_ppm_ascii" -> read_ppm_ascii(s, width, height, max_value)
      [] reader = "read_ppm_binary" -> read_ppm_binary(s, width, height, max_value)

\* Image::read_from, the Image built from the body reader's result
read_from_image(h, format, data) ==
    IF data.kind # "Ok" THEN data
    ELSE Ok(Image(format, h.width, h.height, data.val))

\* Image::read_from, the two unwraps and the match on (format, encoding)
read_from_match(h, format, encoding) ==
    IF format = None \/ encoding = None
    THEN Panic("called Option::unwrap() on a None value")
    ELSE read_from_image(h, format[1],
                         read_body(body_reader(format[1], encoding[1]),
                                   h.rest, h.width, h.height, h.maxval))

\* Image::read_from, after read_header
read_from_header(h) ==
    IF h.kind # "Ok" THEN Err(h.err)
    ELSE read_from_match(h, Format_from_magic_number(h.magic),
                         Encoding_from_magic_number(h.magic))

\* Image::read_from
read_from(s) == read_from_header(read_header(s))

-----------------------------------------------------------------------------
(* The pixel store and the codec as a state machine: a caller builds an     *)
(* image in src, writes it to stream, and reads stream back.                *)

\* what the last operation was and how it ended; encoding is the encoding of
\* the last write_to, val the value the operation returned (NoImage when none)
Ret(op, kind, err, encoding, val) ==
    [op |-> op, kind |-> kind, err |-> err, encoding |-> encoding, val |-> val]

\* the stream a caller opens: the header fields, the separator between width
\* and height (a space or a line feed), the comment and blank lines inserted
\* after the magic number, between width and height, and before the maxval,
\* the body, and the tokens the body was written from (when it is text)
Input(magic, width, height, maxval, sep, fills, body, samples) ==
    [magic |-> magic, width |-> width, height |-> height, maxval |-> maxval,
     sep |-> sep, fills |-> fills, body |-> body, samples |-> samples]

NoFills == <<<<>>, <<>>, <<>>>>

NoHeader == Input(0, 0, 0, None, SPACE, NoFills, <<>>, <<>>)

\* the bytes of the stream that h describes
HeaderStream(h) ==
    Magic(h.magic) \o <<LF>> \o Concat(h.fills[1])
    \o Decimal(h.width)
    \o (IF h.sep = LF THEN <<LF>> \o Concat(h.fills[2]) ELSE <<SPACE>>)
    \o Decimal(h.height) \o <<LF>>
    \o (IF h.maxval # None
        THEN Concat(h.fills[3]) \o Decimal(h.maxval[1]) \o <<LF>> ELSE <<>>)
    \o h.body

\* the number of pixels of an image that hold a nonzero value
Ink(image) ==
    LET zero == IF image.data.tag = "Pixmap" THEN Color8_new(0, 0, 0) ELSE 0
    IN  Cardinality({i \in 1..Len(image.data.buf) : image.data.buf[i] # zero})

\* the caller is still building the image (nothing written yet, no abort)
Building ==
    /\ ret.op \in {"start", "new", "new_dst", "set_pixel", "set_dst_pixel"}
    /\ ret.kind = "Ok"

Init ==
    /\ src = NoImage
    /\ dst = NoImage
    /\ stream = <<>>
    /\ ret = Ret("start", "Ok", "", "", NoImage)
    /\ hdr = NoHeader

\* let src = Image::new(image_type, width, height)
New(image_type, width, height) ==
    /\ ret.op = "start"
    /\ src' = Image_new(image_type, width, height)
    /\ ret' = Ret("new", "Ok", "", "", NoImage)
    /\ UNCHANGED <<dst, stream, hdr>>

\* src.set_pixel(x, y, value)
SetPixel(x, y, value) ==
    /\ Building
    /\ src # NoImage
    /\ LET r == set_pixel(src, x, y, value)
       IN  /\ src' = IF r.kind = "Ok" THEN r.val ELSE src
           /\ ret' = Ret("set_pixel", r.kind, r.err, "", NoImage)
    /\ UNCHANGED <<dst, stream, hdr>>

\* src.write_to(&mut stream, encoding)
WriteTo(encoding) ==
    /\ Building
    /\ src # NoImage
    /\ stream' = write_to(src, encoding)
    /\ ret' = Ret("write_to", "Ok", "", encoding, NoImage)
    /\ UNCHANGED <<src, dst, hdr>>

\* Image::read_from(&mut stream)
ReadFrom ==
    /\ ret.op \in {"write_to", "open"}
    /\ ret.kind = "Ok"
    /\ LET r == read_from(stream)
       IN  ret' = Ret("read_from", r.kind, r.err, ret.encoding,
                      IF r.kind = "Ok" THEN r.val ELSE NoImage)
    /\ UNCHANGED <<src, dst, stream, hdr>>

Next ==
    \/ \E t \in Formats, w \in 0..MaxWidth, h \in 0..MaxHeight : New(t, w, h)
    \/ /\ Building
       /\ Ink(src) < MaxInk
       /\ \E x \in 0..src.width, y \in 0..src.height, v \in PixelValues :
             SetPixel(x, y, v)
    \/ \E e \in Encodings : WriteTo(e)
    \/ ReadFrom

Spec == Init /\ [][Next]_vars

-----------------------------------------------------------------------------
(* Properties of the pixel store and the codec, stated for Spec *)

\* the pixel of image at (x, y), for x < width and y < height
PixelAt(image, x, y) == image.data.buf[y * image.width + x + 1]

\* C1: round trip.  Once a Bitmap or Graymap image has been written (in Ascii
\* or in Binary) and the bytes written have been read back, the read returned
\* an Image of the same width, height and format in which every pixel (x, y)
\* has the value it has in the image written.
C1_RoundTrip ==
    (ret.op = "read_from" /\ ret.encoding \in Encodings
        /\ src.format \in {"Bitmap", "Graymap"})
    => /\ ret.kind = "Ok"
       /\ ret.val.width = src.width
       /\ ret.val.height = src.height
       /\ ret.val.format = src.format
       /\ \A x \in 0..(src.width - 1), y \in 0..(src.height - 1) :
             get_pixel(ret.val, x, y) = get_pixel(src, x, y)

\* the format table of the specification: magic number P<n> -> (Format, Encoding)
FormatTable ==
    [n \in 1..6 |->
        [format |-> <<"Bitmap", "Graymap", "Pixmap", "Bitmap", "Graymap", "Pixmap">>[n],
         encoding |-> IF n <= 3 THEN "Ascii" ELSE "Binary"]]

\* strings that are no magic number: "", "P", "P0", "P7", "p1", "P1 ", "1P"
NoMagics == {<<>>, <<80>>, <<80, 48>>, <<80, 55>>, <<112, 49>>, <<80, 49, 32>>, <<49, 80>>}

\* C2: magic-number lookup.  Whenever an image has been written: the two lookups
\* map each of P1..P6 to the pair of the format table and every other string to
\* nothing, the body reader chosen for P<n> is that of the table's pair, and the
\* magic number just written maps back to the image's format and the encoding
\* that was asked for.
C2_MagicLookup ==
    ret.op = "write_to"
    => /\ \A n \in 1..6 :
             /\ Format_from_magic_number(Magic(n)) = Some(FormatTable[n].format)
             /\ Encoding_from_magic_number(Magic(n)) = Some(FormatTable[n].encoding)
             /\ body_reader(Format_from_magic_number(Magic(n))[1],
                            Encoding_from_magic_number(Magic(n))[1])
                = body_reader(FormatTable[n].format, FormatTable[n].encoding)
       /\ \A m \in NoMagics :
             /\ Format_from_magic_number(m) = None
             /\ Encoding_from_magic_number(m) = None
       /\ Format_from_magic_number(SubSeq(stream, 1, 2)) = Some(src.format)
       /\ Encoding_from_magic_number(SubSeq(stream, 1, 2)) = Some(ret.encoding)

\* the buffer shape that belongs to a format
ShapeOf(format) ==
    CASE format = "Bitmap" -> "Bitmap"
      [] format = "Graymap" -> "Graymap8"
      [] format = "Pixmap" -> "Pixmap"
      [] OTHER -> "None"

\* the Image invariant: one buffer element per pixel, of the format's shape
ImageInvariant(image) ==
    /\ Len(image.data.buf) = image.width * image.height
    /\ image.data.tag = ShapeOf(image.format)

\* C3: Image invariant.  Every Image the program holds (created by Image::new
\* and changed by set_pixel or Kernel::apply, or returned by read_from) has a
\* buffer of width x height elements whose shape matches its format.
C3_ImageInvariant ==
    /\ ImageInvariant(src)
    /\ ImageInvariant(dst)
    /\ ret.op = "read_from" /\ ret.kind = "Ok" => ImageInvariant(ret.val)

\* bit 1 for a stored 0, bit 0 for a nonzero value and for the padding
InkBit(image, x, y) ==
    IF x < image.width /\ PixelAt(image, x, y) = 0 THEN 1 ELSE 0

\* byte j of row y of the packed body, pixel 8j first, in the top bit
PackedByte(image, y, j) ==
    128 * InkBit(image, 8 * j, y) + 64 * InkBit(image, 8 * j + 1, y)
    + 32 * InkBit(image, 8 * j + 2, y) + 16 * InkBit(image, 8 * j + 3, y)
    + 8 * InkBit(image, 8 * j + 4, y) + 4 * InkBit(image, 8 * j + 5, y)
    + 2 * InkBit(image, 8 * j + 6, y) + InkBit(image, 8 * j + 7, y)

\* ceil(width / 8)
RowBytes(width) == IF width % 8 = 0 THEN width \div 8 ELSE (width \div 8) + 1

\* the packed body: height rows of RowBytes(width) bytes each
PackedBody(image) ==
    [k \in 1..(image.height * RowBytes(image.width)) |->
        PackedByte(image, (k - 1) \div RowBytes(image.width),
                          (k - 1) % RowBytes(image.width))]

\* C6: Bitmap/Binary encoding.  Writing a Bitmap image in Binary writes
\* "P4\n<width> <height>\n" and then height x ceil(width/8) bytes, each row
\* packed on its own, 8 pixels a byte, first pixel in the top bit, 0 -> bit 1,
\* nonzero -> bit 0, padding bits 0; the 3x1 image [1,0,0] gives "P4\n3 1\n"
\* and the one byte 0x60.
C6_BitmapBinaryEncoding ==
    (ret.op = "write_to" /\ ret.encoding = "Binary" /\ src.data.tag = "Bitmap")
    => /\ stream = <<80, 52, 10>> \o Decimal(src.width) \o <<32>>
                   \o Decimal(src.height) \o <<10>> \o PackedBody(src)
       /\ (src.width = 3 /\ src.height = 1 /\ src.data.buf = <<1, 0, 0>>)
          => stream = <<80, 52, 10, 51, 32, 49, 10, 96>>

\* C6 witness: the 3x1 Bitmap [1,0,0] has been written in Binary as
\* "P4\n3 1\n" followed by 0x60.
C6_Witness ==
    /\ ret.op = "write_to"
    /\ ret.encoding = "Binary"
    /\ src = Image("Bitmap", 3, 1, ImageData("Bitmap", <<1, 0, 0>>))
    /\ stream = <<80, 52, 10, 51, 32, 49, 10, 96>>

\* C8: bounds-checked set.  A set_pixel(x, y, value) with x >= width or
\* y >= height fails and stores nothing; one with x < width and y < height
\* stores value at pixel (x, y) and nowhere else.  (Any failure is accepted
\* here as the OutOfBounds outcome.)
C8_BoundsCheckedSet ==
    [][\A x \in 0..MaxWidth, y \in 0..MaxHeight, v \in PixelValues :
          (x <= src.width /\ y <= src.height /\ SetPixel(x, y, v))
          => IF x < src.width /\ y < src.height
             THEN /\ ret'.kind = "Ok"
                  /\ PixelAt(src', x, y)
                     = (IF src.data.tag = "Pixmap" THEN Color8_new(v, v, v) ELSE v)
                  /\ \A i \in 1..Len(src.data.buf) :
                        i # y * src.width + x + 1
                        => src'.data.buf[i] = src.data.buf[i]
             ELSE /\ ret'.kind # "Ok"
                  /\ src' = src]_vars

-----------------------------------------------------------------------------
(* Decoding streams that were not written by the encoder: a caller opens a  *)
(* stream and reads an image from it (main.rs).                             *)

\* the tokens of text bodies: "0", "1", "255" and "x" (no number)
SampleTokens == {<<48>>, <<49>>, <<50, 53, 53>>, <<120>>}

\* the bytes of raw bodies: NUL, '1' and 0xFF
BodyBytes == {0, 49, 255}

MaxVals == {1, 255, 256}

\* the sequences over S of length at most n
SeqsUpTo(S, n) == UNION {[1..k -> S] : k \in 0..n}

\* a text body: every token followed by a space
TextBody(samples) ==
    Concat([i \in 1..Len(samples) |-> samples[i] \o <<SPACE>>])

\* does magic number P<n> carry a maxval (per the Netpbm formats)
HasMaxval(n) == n \in {2, 3, 5, 6}

\* the maxvals of the headers written for magic number P<n>
MaxValsOf(n, maxvals) ==
    IF HasMaxval(n) THEN {Some(v) : v \in maxvals} ELSE {None}

\* text bodies of at most n tokens, and raw bodies of at most n bytes
TextBodies(n) ==
    {[body |-> TextBody(s), samples |-> s] : s \in SeqsUpTo(SampleTokens, n)}

RawBodies(n) == {[body |-> r, samples |-> <<>>] : r \in SeqsUpTo(BodyBytes, n)}

\* the streams with magic number P<n> opened for decoding: small dimensions,
\* text bodies of up to MaxSamples tokens and raw bodies of up to MaxBody bytes
DecodeInputs(n) ==
    {Input(n, w, h, m, SPACE, NoFills, b.body, b.samples) :
        w \in 0..MaxInDim, h \in 0..MaxInDim, m \in MaxValsOf(n, MaxVals),
        b \in TextBodies(MaxSamples) \cup RawBodies(MaxBody)}

\* the stream "P2\n2 2\n255\n0 128 255 64\n"
SampleP2 ==
    Input(2, 2, 2, Some(255), SPACE, NoFills,
          <<48, 32, 49, 50, 56, 32, 50, 53, 53, 32, 54, 52, 10>>,
          <<<<48>>, <<49, 50, 56>>, <<50, 53, 53>>, <<54, 52>>>>)

\* let mut reader = std::fs::File::open(..).unwrap(), for a file that holds
\* the stream of h
Open(h) ==
    /\ ret.op = "start"
    /\ hdr' = h
    /\ stream' = HeaderStream(h)
    /\ ret' = Ret("open", "Ok", "", "", NoImage)
    /\ UNCHANGED <<src, dst>>

NextDecode ==
    \/ /\ ret.op = "start"
       /\ \E n \in 1..7 : \E h \in DecodeInputs(n) \cup {SampleP2} : Open(h)
    \/ ReadFrom

SpecDecode == Init /\ [][NextDecode]_vars

-----------------------------------------------------------------------------
(* Properties of decoding, stated for SpecDecode *)

\* C4: decode never aborts.  Whatever stream was opened (an unrecognized magic
\* number, a non-numeric token in a text body, a maxval of 256 on a binary
\* body, a text Pixmap body of more than one pixel, ...), read_from has
\* returned an Image or an error to its caller.
C4_DecodeNeverAborts ==
    ret.op = "read_from" => ret.kind \in {"Ok", "Err"}

\* round(t x 255 / m) for m > 0, halves rounded up
Round255(t, m) == (2 * t * 255 + m) \div (2 * m)

\* is the token a decimal number of at most m
SampleUpTo(token, m) ==
    /\ \A i \in 1..Len(token) : is_digit(token[i])
    /\ DigitsValue(token) <= m

\* C5: Graymap/Ascii rescaling.  Once a P2 stream with maxval m, whose body
\* holds width x height tokens t <= m, has been read, the read returned a
\* Graymap image of that width and height whose pixels are round(t x 255 / m)
\* in row-major order; "P2\n2 2\n255\n0 128 255 64\n" gave the 2x2 Graymap
\* [0,128,255,64].
C5_GraymapAsciiRescale ==
    (ret.op = "read_from" /\ hdr.magic = 2
        /\ Len(hdr.samples) = hdr.width * hdr.height
        /\ \A i \in 1..Len(hdr.samples) : SampleUpTo(hdr.samples[i], hdr.maxval[1]))
    => /\ ret.kind = "Ok"
       /\ ret.val = Image("Graymap", hdr.width, hdr.height,
                          ImageData("Graymap8",
                              [i \in 1..Len(hdr.samples) |->
                                  Round255(DigitsValue(hdr.samples[i]),
                                           hdr.maxval[1])]))
       /\ hdr = SampleP2
          => ret.val = Image("Graymap", 2, 2,
                             ImageData("Graymap8", <<0, 128, 255, 64>>))

\* the bytes of body that the binary variant P<n> needs for width x height
BodyNeeded(n, width, height) ==
    CASE n = 4 -> height * RowBytes(width)
      [] n = 5 -> width * height
      [] n = 6 -> 3 * width * height

\* C10: truncated binary body.  Once a P4, P5 or P6 stream whose body is
\* shorter than its width and height require has been read, the read returned
\* the error UnexpectedEof, and no Image.
C10_TruncatedBinaryBody ==
    (ret.op = "read_from" /\ hdr.magic \in {4, 5, 6}
        /\ Len(hdr.body) < BodyNeeded(hdr.magic, hdr.width, hdr.height))
    => ret.kind = "Err" /\ ret.err = "UnexpectedEof"

\* bit (7 - x mod 8), counted from the least-significant bit, of the byte of
\* body that holds pixel (x, y) of a packed bitmap of the given width
PackedBit(body, width, x, y) ==
    (body[y * RowBytes(width) + (x \div 8) + 1] \div (2 ^ (7 - (x % 8)))) % 2

\* C11: Bitmap/Binary decoding.  Once a P4 stream whose body holds the
\* height x ceil(width/8) bytes of its rows has been read, the read returned
\* a Bitmap image of that width and height in which pixel (x, y) is 1 if bit
\* (7 - x mod 8) of byte (y x ceil(width/8) + floor(x/8)) of the body is set
\* and 0 if it is clear.
C11_BitmapBinaryDecoding ==
    (ret.op = "read_from" /\ hdr.magic = 4
        /\ Len(hdr.body) >= BodyNeeded(4, hdr.width, hdr.height))
    => /\ ret.kind = "Ok"
       /\ ret.val.format = "Bitmap"
       /\ ret.val.width = hdr.width
       /\ ret.val.height = hdr.height
       /\ \A x \in 0..(hdr.width - 1), y \in 0..(hdr.height - 1) :
             get_pixel(ret.val, x, y) = Ok(PackedBit(hdr.body, hdr.width, x, y))

-----------------------------------------------------------------------------
(* The header grammar on streams with comment and blank lines: a caller     *)
(* opens a stream, lines are inserted into its header, and the header is    *)
(* read.                                                                    *)

HeaderWidths == {0, 12}

HeaderHeights == {7}

HeaderMaxVals == {1, 255, 65535}

\* a raw body whose first bytes look like a comment line, and the empty body
HeaderBodies == {<<>>, <<HASH, 49, LF, 49>>}

\* the lines inserted: "\n", "#\n", " \t\r\n" and " # P5 1\n"
FillerLines ==
    {<<LF>>, <<HASH, LF>>, <<SPACE, 9, 13, LF>>,
     <<SPACE, HASH, SPACE, LETTERP, 53, SPACE, 49, LF>>}

\* the streams with magic number P<n> opened for reading the header: no line
\* inserted yet
HeaderInputs(n) ==
    {Input(n, w, h, m, sep, NoFills, b, <<>>) :
        w \in HeaderWidths, h \in HeaderHeights, m \in MaxValsOf(n, HeaderMaxVals),
        sep \in {SPACE, LF}, b \in HeaderBodies}

\* the number of lines inserted into the header of h
Fills(h) == Len(h.fills[1]) + Len(h.fills[2]) + Len(h.fills[3])

\* the stream gets one more line after the lines already inserted at gap: 1 is
\* after the magic number, 2 between width and height (when they are on two
\* lines), 3 before the maxval (when the variant has one)
InsertLine(gap, line) ==
    /\ ret.op = "open"
    /\ Fills(hdr) < MaxFill
    /\ gap = 2 => hdr.sep = LF
    /\ gap = 3 => hdr.maxval # None
    /\ hdr' = [hdr EXCEPT !.fills[gap] = Append(@, line)]
    /\ stream' = HeaderStream(hdr')
    /\ UNCHANGED <<src, dst, ret>>

\* read_header(&mut reader), the first step of Image::read_from
ReadHeader ==
    /\ ret.op = "open"
    /\ LET r == read_header(stream)
       IN  ret' = Ret("read_header", r.kind, r.err, "", r)
    /\ UNCHANGED <<src, dst, stream, hdr>>

NextHeader ==
    \/ /\ ret.op = "start"
       /\ \E n \in 1..6 : \E h \in HeaderInputs(n) : Open(h)
    \/ \E gap \in 1..3, line \in FillerLines : InsertLine(gap, line)
    \/ ReadHeader

SpecHeader == Init /\ [][NextHeader]_vars

-----------------------------------------------------------------------------
(* Convolution kernel *)

\* the struct Kernel; the weights of the model are whole numbers, which f32
\* holds and adds exactly
Kernel(size, weights) == [size |-> size, weights |-> weights]

\* Kernel::new
Kernel_new(size, weights) ==
    IF Len(weights) # size * size
    THEN Panic("assertion failed: weights.len() == size * size")
    ELSE Ok(Kernel(size, weights))

\* value as u8, for a whole f32: the cast saturates at 0 and at 255
f32_as_u8(value) == IF value < 0 THEN 0 ELSE IF value > 255 THEN 255 ELSE value

\* the end n - 1 of the ranges 1..src.height() - 1 and 1..src.width() - 1 in
\* usize: for n = 0 the subtraction aborts when the build checks overflow and
\* wraps to usize::MAX when it does not
range_end(n, overflow_checks) ==
    IF n > 0 THEN Ok([wrapped |-> FALSE, end |-> n - 1])
    ELSE IF overflow_checks THEN Panic("attempt to subtract with overflow")
    ELSE Ok([wrapped |-> TRUE, end |-> 0])

\* is i below the end of the range
in_range(i, r) == r.wrapped \/ i < r.end

RECURSIVE kernel_sum(_, _, _, _, _, _)
\* Kernel::apply, the loops over j and i: weight n = j * k + i is next, value
\* is the sum so far.  For the sizes 1 and 3 of the model and x, y >= 1 the
\* coordinate x + i - k / 2 never goes below 0.
kernel_sum(self, s, x, y, n, value) ==
    IF n >= self.size * self.size THEN Ok(value)
    ELSE LET i == n % self.size
             j == n \div self.size
             p == get_pixel(s, x + i - (self.size \div 2), y + j - (self.size \div 2))
         IN  IF p.kind # "Ok" THEN p
             ELSE kernel_sum(self, s, x, y, n + 1, value + p.val * self.weights[n + 1])

\* Kernel::apply, dst.set_pixel(x, y, value as u8) for the sum of pixel (x, y)
kernel_store(d, x, y, value) ==
    IF value.kind # "Ok" THEN value
    ELSE set_pixel(d, x, y, f32_as_u8(value.val))

RECURSIVE kernel_row(_, _, _, _, _, _)
RECURSIVE kernel_row_next(_, _, _, _, _, _)
\* Kernel::apply, the loop over x of row y, from x on.  A range that ends at
\* usize::MAX is left by the abort of its first pixel (the image has no pixel).
kernel_row(self, s, d, y, x, x_end) ==
    IF ~in_range(x, x_end) THEN Ok(d)
    ELSE kernel_row_next(self, s, kernel_store(d, x, y, kernel_sum(self, s, x, y, 0, 0)),
                         y, x, x_end)

kernel_row_next(self, s, stored, y, x, x_end) ==
    IF stored.kind # "Ok" THEN stored
    ELSE kernel_row(self, s, stored.val, y, x + 1, x_end)

RECURSIVE kernel_rows(_, _, _, _, _, _)
RECURSIVE kernel_rows_row(_, _, _, _, _, _, _)
RECURSIVE kernel_rows_next(_, _, _, _, _, _)
\* Kernel::apply, the loop over y, from y on; src.width() - 1 is computed anew
\* for every row
kernel_rows(self, s, d, y, y_end, overflow_checks) ==
    IF ~in_range(y, y_end) THEN Ok(d)
    ELSE kernel_rows_row(self, s, d, y, y_end, overflow_checks,
                         range_end(s.width, overflow_checks))

kernel_rows_row(self, s, d, y, y_end, overflow_checks, x_end) ==
    IF x_end.kind # "Ok" THEN x_end
    ELSE kernel_rows_next(self, s, kernel_row(self, s, d, y, 1, x_end.val),
                          y, y_end, overflow_checks)

\* when the range of y ends at usize::MAX and a row has done nothing (its
\* range of x is empty), every later row does nothing either: the loop ends
\* after its 2^64 - 2 rows with dst as it is
kernel_rows_next(self, s, row, y, y_end, overflow_checks) ==
    IF row.kind # "Ok" THEN row
    ELSE IF y_end.wrapped THEN row
    ELSE kernel_rows(self, s, row.val, y + 1, y_end, overflow_checks)

\* Kernel::apply, after the two assertions
kernel_apply_rows(self, s, d, overflow_checks, y_end) ==
    IF y_end.kind # "Ok" THEN y_end
    ELSE kernel_rows(self, s, d, 1, y_end.val, overflow_checks)

\* Kernel::apply: dst after the call, or the abort
Kernel_apply(self, s, d, overflow_checks) ==
    IF s.width # d.width THEN Panic("assertion failed: src.width() == dst.width()")
    ELSE IF s.height # d.height
    THEN Panic("assertion failed: src.height() == dst.height()")
    ELSE kernel_apply_rows(self, s, d, overflow_checks,
                           range_end(s.height, overflow_checks))

\* Kernel::new(size, weights).apply(&s, &mut d)
new_and_apply(kernel, s, d, overflow_checks) ==
    IF kernel.kind # "Ok" THEN kernel
    ELSE Kernel_apply(kernel.val, s, d, overflow_checks)

-----------------------------------------------------------------------------
(* The kernel as a state machine: a caller creates src and dst, stores      *)
(* pixels in both, and applies a kernel from src to dst (main.rs).          *)

\* the size-3 kernel whose weights are 0 except the centre weight 1
Identity3 == <<0, 0, 0, 0, 1, 0, 0, 0, 0>>

\* the arguments of Kernel::new: the identity, the sum of the neighbourhood,
\* the negated centre, the doubling size-1 kernel, and a size-3 kernel with 8
\* weights
KernelInputs ==
    {[size |-> 3, weights |-> Identity3],
     [size |-> 3, weights |-> <<1, 1, 1, 1, 1, 1, 1, 1, 1>>],
     [size |-> 3, weights |-> <<0, 0, 0, 0, -1, 0, 0, 0, 0>>],
     [size |-> 1, weights |-> <<2>>],
     [size |-> 3, weights |-> <<0, 0, 0, 0, 1, 0, 0, 0>>]}

\* let mut dst = Image::new(image_type, width, height)
NewDst(image_type, width, height) ==
    /\ ret.op = "new"
    /\ dst' = Image_new(image_type, width, height)
    /\ ret' = Ret("new_dst", "Ok", "", "", NoImage)
    /\ UNCHANGED <<src, stream, hdr>>

\* dst.set_pixel(x, y, value)
SetDstPixel(x, y, value) ==
    /\ Building
    /\ dst # NoImage
    /\ LET r == set_pixel(dst, x, y, value)
       IN  /\ dst' = IF r.kind = "Ok" THEN r.val ELSE dst
           /\ ret' = Ret("set_dst_pixel", r.kind, r.err, "", NoImage)
    /\ UNCHANGED <<src, stream, hdr>>

\* Kernel::new(size, weights).apply(&src, &mut dst), in a build with or
\* without overflow checks; ret keeps the arguments of the call
Apply(size, weights, overflow_checks) ==
    /\ Building
    /\ src # NoImage
    /\ dst # NoImage
    /\ LET r == new_and_apply(Kernel_new(size, weights), src, dst, overflow_checks)
       IN  /\ dst' = IF r.kind = "Ok" THEN r.val ELSE dst
           /\ ret' = Ret("apply", r.kind, r.err, "",
                         [size |-> size, weights |-> weights,
                          overflow_checks |-> overflow_checks,
                          src |-> src, dst |-> dst])
    /\ UNCHANGED <<src, stream, hdr>>

NextKernel ==
    \/ \E t \in Formats, w \in 0..MaxKDim, h \in 0..MaxKDim : New(t, w, h)
    \/ /\ ret.op = "new"
       /\ \E t \in Formats, swap \in BOOLEAN :
             NewDst(t, IF swap THEN src.height ELSE src.width,
                       IF swap THEN src.width ELSE src.height)
    \/ /\ Building
       /\ dst # NoImage
       /\ Ink(src) + Ink(dst) < MaxKInk
       /\ \/ \E x \in 0..(src.width - 1), y \in 0..(src.height - 1), v \in PixelValues :
                SetPixel(x, y, v)
          \/ \E x \in 0..(dst.width - 1), y \in 0..(dst.height - 1), v \in PixelValues :
                SetDstPixel(x, y, v)
    \/ /\ Building
       /\ dst # NoImage
       /\ \E k \in KernelInputs, c \in BOOLEAN : Apply(k.size, k.weights, c)

SpecKernel == Init /\ [][NextKernel]_vars

\* C9: identity kernel.  Once the identity kernel has been applied from a
\* Bitmap or Graymap src to a Bitmap or Graymap dst of the same width and
\* height (0, 1 and 2 included), the call has returned, every interior pixel
\* of dst equals the pixel of src, every border pixel of dst has the value it
\* had before the call, and src is as it was.
C9_IdentityKernel ==
    (ret.op = "apply" /\ ret.val.size = 3 /\ ret.val.weights = Identity3
        /\ ret.val.src.format \in {"Bitmap", "Graymap"}
        /\ ret.val.dst.format \in {"Bitmap", "Graymap"}
        /\ ret.val.src.width = ret.val.dst.width
        /\ ret.val.src.height = ret.val.dst.height)
    => /\ ret.kind = "Ok"
       /\ src = ret.val.src
       /\ \A x \in 0..(src.width - 1), y \in 0..(src.height - 1) :
             PixelAt(dst, x, y) =
                IF x >= 1 /\ x <= src.width - 2 /\ y >= 1 /\ y <= src.height - 2
                THEN PixelAt(src, x, y)
                ELSE PixelAt(ret.val.dst, x, y)

=============================================================================
